---------------------------- MODULE Spec2Model ----------------------------
(***************************************************************************)
(* A model of app.py, the Streamlit script of the mental-health dataset    *)
(* creator: PII scrubbing (scrub_text), paragraph pairing                  *)
(* (segment_into_pairs), persistence of a dataset as line-delimited JSON   *)
(* in saved_datasets/ and versioned_datasets/, the version label map       *)
(* (version_labels.json) and the two-version keyword comparison.           *)
(*                                                                         *)
(* Text is modelled as a sequence of one-character strings, so that        *)
(* regular expressions, str.strip, str.lower, json.dumps and json.loads    *)
(* are computed character by character.                                    *)
(***************************************************************************)
EXTENDS Integers, Sequences, FiniteSets, TLC

VARIABLES
    raw_text,   \* scrub_text: the argument `text` as passed in (line 32)
    text,       \* scrub_text: the local `text`, reassigned by lines 33-36
    prev,       \* scrub_text: the value of `text` before the last re.sub
    spc,        \* scrub_text: position, "raw" | "name" | "date" | "phone" | "email"
    seg_text,   \* segment_into_pairs: argument `text` (line 39)
    seg_tag,    \* segment_into_pairs: argument `tag` (line 39)
    dataset,    \* segment_into_pairs: the returned list (line 44)
    segpc,      \* segment_into_pairs: "call" | "returned"
    now,        \* datetime.now(), in seconds of the modelled clock
    runs,       \* the number of script runs started so far
    saved_datasets,     \* STORAGE_DIR: filename -> file content
    versioned_datasets, \* VERSION_DIR: filename -> file content
    labels_file,        \* VERSION_LABELS_FILE: [exists, content]
    last_writer,        \* the run whose dump last wrote labels_file (0: none)
    pc,                 \* per run: the position in the script
    version_labels,     \* per run: the dict version_labels (pairs, in order)
    filename,           \* per run: filename (line 70)
    pairs,              \* per run: pairs (line 62)
    versioned_files,    \* per run: versioned_files (line 89)
    result,             \* per run: what the compare block loaded and showed
    saves,      \* history: the saves made, [tag, time, filename, data]
    given       \* history: filename -> the label most recently given to it

scrubVars == <<raw_text, text, prev, spc>>
segVars == <<seg_text, seg_tag, dataset, segpc>>
fsVars == <<saved_datasets, versioned_datasets>>
labelVars == <<labels_file, last_writer>>
runVars == <<pc, version_labels, filename, pairs, versioned_files, result>>
histVars == <<saves, given>>
storeVars == <<now, runs, fsVars, labelVars, runVars, histVars>>
vars == <<scrubVars, segVars, storeVars>>

-----------------------------------------------------------------------------
(* Characters and character classes of Python's re module (str patterns). *)

Upper == {"A","B","C","D","E","F","G","H","I","J","K","L","M",
          "N","O","P","Q","R","S","T","U","V","W","X","Y","Z"}
Lower == {"a","b","c","d","e","f","g","h","i","j","k","l","m",
          "n","o","p","q","r","s","t","u","v","w","x","y","z"}
Digit == {"0","1","2","3","4","5","6","7","8","9"}
Space == {" ", "\n", "\t", "\r"}
Word == Upper \cup Lower \cup Digit \cup {"_"}

\* F(v), with v evaluated once before F is applied to it
Bind(v, F(_)) == CHOOSE y \in {F(x) : x \in {v}} : TRUE

\* Concatenation of a sequence of sequences.
RECURSIVE Flatten(_)
Flatten(ss) ==
    IF ss = <<>> THEN <<>> ELSE Head(ss) \o Flatten(Tail(ss))

-----------------------------------------------------------------------------
(* A backtracking matcher for the shapes of pattern app.py uses: a         *)
(* sequence of items, each either the zero-width assertion \b or a         *)
(* character class with a greedy repetition {min,max}.                     *)

WordAt(t, i) == i >= 1 /\ i <= Len(t) /\ t[i] \in Word

\* \b between positions i-1 and i
Boundary(t, i) == WordAt(t, i - 1) # WordAt(t, i)

Cls(set, lo, hi) == [kind |-> "cls", set |-> set, lo |-> lo, hi |-> hi]
WordB == [kind |-> "b", set |-> {}, lo |-> 0, hi |-> 0]
\* the bound of an unbounded repetition (+): longer than any modelled text
Many == 1000

\* the number of characters from position i on that lie in set, at most hi
RECURSIVE RunLen(_, _, _, _)
RunLen(t, i, set, hi) ==
    IF hi = 0 \/ i > Len(t) \/ t[i] \notin set THEN 0
    ELSE 1 + RunLen(t, i + 1, set, hi - 1)

\* The position after the match of items[k..] started at position i, or 0
\* when there is none. A greedy item first takes as many characters as it
\* can and gives them back one at a time (TryCount) when the rest fails.
RECURSIVE MatchFrom(_, _, _, _), TryCount(_, _, _, _, _)
MatchFrom(items, k, t, i) ==
    IF k > Len(items) THEN i
    ELSE IF items[k].kind = "b"
         THEN IF Boundary(t, i) THEN MatchFrom(items, k + 1, t, i) ELSE 0
         ELSE Bind(RunLen(t, i, items[k].set, items[k].hi), LAMBDA n :
                  TryCount(items, k, t, i, n))
TryCount(items, k, t, i, n) ==
    IF n < items[k].lo THEN 0
    ELSE Bind(MatchFrom(items, k + 1, t, i + n), LAMBDA e :
             IF e # 0 THEN e ELSE TryCount(items, k, t, i, n - 1))

\* re.sub(pattern, repl, t): the leftmost non-overlapping matches, scanned
\* from position i on, each replaced by repl. No pattern matches the empty
\* string, so a match always advances.
RECURSIVE SubFrom(_, _, _, _)
SubFrom(items, repl, t, i) ==
    IF i > Len(t) THEN <<>>
    ELSE Bind(MatchFrom(items, 1, t, i), LAMBDA e :
             IF e # 0 THEN repl \o SubFrom(items, repl, t, e)
             ELSE <<t[i]>> \o SubFrom(items, repl, t, i + 1))

\* A faulty re.sub that replaces the first match only (count=1).
RECURSIVE SubFirstFrom(_, _, _, _)
SubFirstFrom(items, repl, t, i) ==
    IF i > Len(t) THEN <<>>
    ELSE Bind(MatchFrom(items, 1, t, i), LAMBDA e :
             IF e # 0 THEN repl \o SubSeq(t, e, Len(t))
             ELSE <<t[i]>> \o SubFirstFrom(items, repl, t, i + 1))
re_sub_first(items, repl, t) == SubFirstFrom(items, repl, t, 1)

re_sub(items, repl, t) == SubFrom(items, repl, t, 1)

\* r"\b[A-Z][a-z]+\s[A-Z][a-z]+\b"
NAME_RE == << WordB, Cls(Upper, 1, 1), Cls(Lower, 1, Many), Cls(Space, 1, 1),
              Cls(Upper, 1, 1), Cls(Lower, 1, Many), WordB >>
\* r"\d{1,2}/\d{1,2}/\d{2,4}"
DATE_RE == << Cls(Digit, 1, 2), Cls({"/"}, 1, 1), Cls(Digit, 1, 2),
              Cls({"/"}, 1, 1), Cls(Digit, 2, 4) >>
\* r"\(?\d{3}\)?[-.\s]?\d{3}[-.\s]?\d{4}"
PhoneSep == {"-", "."} \cup Space
PHONE_RE == << Cls({"("}, 0, 1), Cls(Digit, 3, 3), Cls({")"}, 0, 1),
               Cls(PhoneSep, 0, 1), Cls(Digit, 3, 3), Cls(PhoneSep, 0, 1),
               Cls(Digit, 4, 4) >>
\* r"[\w.-]+@[\w.-]+"
EmailCh == Word \cup {".", "-"}
EMAIL_RE == << Cls(EmailCh, 1, Many), Cls({"@"}, 1, 1), Cls(EmailCh, 1, Many) >>

REDACTED_NAME == <<"[","R","E","D","A","C","T","E","D","_","N","A","M","E","]">>
REDACTED_DATE == <<"[","R","E","D","A","C","T","E","D","_","D","A","T","E","]">>
REDACTED_PHONE == <<"[","R","E","D","A","C","T","E","D","_","P","H","O","N","E","]">>
REDACTED_EMAIL == <<"[","R","E","D","A","C","T","E","D","_","E","M","A","I","L","]">>

\* the pattern and placeholder of the rule that leaves scrub_text at position p
RuleRe(p) ==
    CASE p = "name" -> NAME_RE [] p = "date" -> DATE_RE
      [] p = "phone" -> PHONE_RE [] p = "email" -> EMAIL_RE
RuleRepl(p) ==
    CASE p = "name" -> REDACTED_NAME [] p = "date" -> REDACTED_DATE
      [] p = "phone" -> REDACTED_PHONE [] p = "email" -> REDACTED_EMAIL

\* scrub_text as a function: the four substitutions in order
scrub_text(t) ==
    Bind(re_sub(NAME_RE, REDACTED_NAME, t), LAMBDA t1 :
    Bind(re_sub(DATE_RE, REDACTED_DATE, t1), LAMBDA t2 :
    Bind(re_sub(PHONE_RE, REDACTED_PHONE, t2), LAMBDA t3 :
         re_sub(EMAIL_RE, REDACTED_EMAIL, t3))))

-----------------------------------------------------------------------------
(* segment_into_pairs (lines 39-44).                                       *)

\* str.split(sep) for a one-character separator: the pieces between
\* separators, empty pieces kept (cur is the piece being read)
RECURSIVE SplitFrom(_, _, _, _)
SplitFrom(t, sep, i, cur) ==
    IF i > Len(t) THEN <<cur>>
    ELSE IF t[i] = sep THEN <<cur>> \o SplitFrom(t, sep, i + 1, <<>>)
         ELSE SplitFrom(t, sep, i + 1, Append(cur, t[i]))
split(t, sep) == SplitFrom(t, sep, 1, <<>>)

\* str.strip(): leading and trailing whitespace removed
RECURSIVE lstrip(_), rstrip(_)
lstrip(p) == IF p # <<>> /\ Head(p) \in Space THEN lstrip(Tail(p)) ELSE p
rstrip(p) ==
    IF p # <<>> /\ p[Len(p)] \in Space THEN rstrip(SubSeq(p, 1, Len(p) - 1)) ELSE p
strip(p) == Bind(rstrip(p), LAMBDA q : lstrip(q))

\* line 40: [p.strip() for p in text.split("\n") if p.strip() != ""]
RECURSIVE StripNonEmpty(_)
StripNonEmpty(ps) ==
    IF ps = <<>> THEN <<>>
    ELSE Bind(strip(Head(ps)), LAMBDA stripped :
             IF stripped # <<>>
             THEN <<stripped>> \o StripNonEmpty(Tail(ps))
             ELSE StripNonEmpty(Tail(ps)))
Paragraphs(t) == Bind(split(t, "\n"), LAMBDA ps : StripNonEmpty(ps))

\* A dict is a function from keys to values, both character sequences.
K_prompt == <<"p","r","o","m","p","t">>
K_response == <<"r","e","s","p","o","n","s","e">>
K_tag == <<"t","a","g">>
\* line 43: {"prompt": p, "response": r, "tag": g}
Record(p, r, g) == (K_prompt :> p) @@ (K_response :> r) @@ (K_tag :> g)

\* A faulty loop that advances by one line instead of two.
RECURSIVE PairLoopStepOne(_, _, _)
PairLoopStepOne(paragraphs, i, tag) ==
    IF i < Len(paragraphs) - 1
    THEN << Record(paragraphs[i + 1], paragraphs[i + 2], tag) >>
             \o PairLoopStepOne(paragraphs, i + 1, tag)
    ELSE <<>>

\* lines 42-43: for i in range(0, len(paragraphs)-1, 2): dataset.append(...)
\* (i is Python's 0-based index; paragraphs[i] is the model's paragraphs[i+1])
RECURSIVE PairLoop(_, _, _)
PairLoop(paragraphs, i, tag) ==
    IF i < Len(paragraphs) - 1
    THEN << Record(paragraphs[i + 1], paragraphs[i + 2], tag) >>
             \o PairLoop(paragraphs, i + 2, tag)
    ELSE <<>>

segment_into_pairs(t, tag) ==
    Bind(Paragraphs(t), LAMBDA paragraphs : PairLoop(paragraphs, 0, tag))

-----------------------------------------------------------------------------
(* json.dumps and json.loads, character by character.                      *)
(* The parser covers the JSON the model's files hold: a line is either a   *)
(* flat object whose values are strings, or not JSON at all. Escapes       *)
(* \uXXXX, numbers, arrays, literals and nested values are in no file of   *)
(* the model.                                                              *)

QUOTE == "\""
BACKSLASH == "\\"

\* json.dumps of one character of a string (ensure_ascii, ASCII input)
EscapeChar(c) ==
    CASE c = QUOTE -> <<BACKSLASH, QUOTE>>
      [] c = BACKSLASH -> <<BACKSLASH, BACKSLASH>>
      [] c = "\n" -> <<BACKSLASH, "n">>
      [] c = "\t" -> <<BACKSLASH, "t">>
      [] c = "\r" -> <<BACKSLASH, "r">>
      [] OTHER -> <<c>>

\* A faulty encoder that writes the characters of a string as they are.
json_dumps_str_raw(str) == <<QUOTE>> \o str \o <<QUOTE>>

\* json.dumps(str)
json_dumps_str(str) ==
    Bind([i \in 1..Len(str) |-> EscapeChar(str[i])], LAMBDA escaped :
        <<QUOTE>> \o Flatten(escaped) \o <<QUOTE>>)

\* json.dumps(p) for the dict of line 43, keys in insertion order
json_dumps_record(p) ==
    <<"{">> \o json_dumps_str(K_prompt) \o <<":", " ">> \o json_dumps_str(p[K_prompt])
    \o <<",", " ">> \o json_dumps_str(K_response) \o <<":", " ">> \o json_dumps_str(p[K_response])
    \o <<",", " ">> \o json_dumps_str(K_tag) \o <<":", " ">> \o json_dumps_str(p[K_tag])
    \o <<"}">>

\* sep.join(parts)
RECURSIVE join(_, _)
join(sep, parts) ==
    IF parts = <<>> THEN <<>>
    ELSE IF Len(parts) = 1 THEN parts[1]
         ELSE parts[1] \o sep \o join(sep, Tail(parts))

\* line 68: "\n".join([json.dumps(p) for p in pairs])
jsonl(ps) ==
    Bind([i \in 1..Len(ps) |-> json_dumps_record(ps[i])], LAMBDA dumped :
        join(<<"\n">>, dumped))

JsonWs == {" ", "\t", "\n", "\r"}
\* the characters a backslash may be followed by, and what they stand for
Unescaped(c) ==
    CASE c = "n" -> "\n" [] c = "t" -> "\t" [] c = "r" -> "\r" [] OTHER -> c
EscapeLetters == {QUOTE, BACKSLASH, "/", "n", "t", "r"}

ParseFail == [ok |-> FALSE, val |-> <<>>, next |-> 0]
ParseOk(v, n) == [ok |-> TRUE, val |-> v, next |-> n]

RECURSIVE SkipWs(_, _)
SkipWs(t, i) == IF i <= Len(t) /\ t[i] \in JsonWs THEN SkipWs(t, i + 1) ELSE i

\* the body of a string literal from position i (after the opening quote)
RECURSIVE StrBody(_, _, _)
StrBody(t, i, acc) ==
    IF i > Len(t) THEN ParseFail
    ELSE IF t[i] = QUOTE THEN ParseOk(acc, i + 1)
    ELSE IF t[i] = BACKSLASH
         THEN IF i + 1 <= Len(t) /\ t[i + 1] \in EscapeLetters
              THEN StrBody(t, i + 2, Append(acc, Unescaped(t[i + 1])))
              ELSE ParseFail
    ELSE IF t[i] \in {"\n", "\t", "\r"} THEN ParseFail   \* strict: no control characters
    ELSE StrBody(t, i + 1, Append(acc, t[i]))

ParseStr(t, i) ==
    IF i <= Len(t) /\ t[i] = QUOTE THEN StrBody(t, i + 1, <<>>) ELSE ParseFail

\* d[k] = v on an insertion-ordered dict, kept as a sequence of <<key, value>>
\* pairs: an existing key keeps its place and takes the new value
HasKey(items, k) == \E i \in 1..Len(items) : items[i][1] = k
PutItem(items, k, v) ==
    IF HasKey(items, k)
    THEN [i \in 1..Len(items) |-> IF items[i][1] = k THEN <<k, v>> ELSE items[i]]
    ELSE Append(items, <<k, v>>)
KeysOf(items) == {items[i][1] : i \in 1..Len(items)}
\* the dict as a function from keys to values
DictOf(items) ==
    [k \in KeysOf(items) |-> items[CHOOSE i \in 1..Len(items) : items[i][1] = k][2]]

\* the members of an object from position i (a key is expected), added to
\* the pairs read so far
RECURSIVE Members(_, _, _)
Members(t, i, items) ==
    Bind(ParseStr(t, i), LAMBDA k :
        IF ~k.ok THEN ParseFail ELSE
    Bind(SkipWs(t, k.next), LAMBDA c :
        IF c > Len(t) \/ t[c] # ":" THEN ParseFail ELSE
    Bind(ParseStr(t, SkipWs(t, c + 1)), LAMBDA v :
        IF ~v.ok THEN ParseFail ELSE
    Bind(SkipWs(t, v.next), LAMBDA e :
    Bind(PutItem(items, k.val, v.val), LAMBDA items2 :
        IF e > Len(t) THEN ParseFail
        ELSE IF t[e] = "}" THEN ParseOk(items2, e + 1)
        ELSE IF t[e] = "," THEN Bind(SkipWs(t, e + 1), LAMBDA j : Members(t, j, items2))
        ELSE ParseFail)))))

ParseObject(t, i) ==
    IF i > Len(t) \/ t[i] # "{" THEN ParseFail
    ELSE LET j == SkipWs(t, i + 1)
         IN  IF j <= Len(t) /\ t[j] = "}" THEN ParseOk(<<>>, j + 1)
             ELSE Members(t, j, <<>>)

\* json.loads(text) / json.load(f): the pairs of the object in val;
\* [ok |-> FALSE] stands for json.JSONDecodeError
json_loads(line) ==
    Bind(ParseObject(line, SkipWs(line, 1)), LAMBDA r :
        IF r.ok /\ SkipWs(line, r.next) = Len(line) + 1 THEN r ELSE ParseFail)

\* json.dump(version_labels, f, indent=2): the text written for the dict
RECURSIVE DumpItems(_)
DumpItems(items) ==
    IF items = <<>> THEN <<>>
    ELSE <<" ", " ">> \o json_dumps_str(items[1][1]) \o <<":", " ">>
         \o json_dumps_str(items[1][2])
         \o (IF Len(items) = 1 THEN <<"\n">> ELSE <<",", "\n">> \o DumpItems(Tail(items)))
json_dump_indent2(items) ==
    IF items = <<>> THEN <<"{", "}">>
    ELSE <<"{", "\n">> \o DumpItems(items) \o <<"}">>

\* f.readlines(): the lines of the content, each with its "\n" kept; no
\* line follows a final "\n"
LineEnds(t) == {i \in 1..Len(t) : t[i] = "\n" \/ i = Len(t)}
readlines(t) ==
    LET ends == LineEnds(t)
        end(k) == CHOOSE e \in ends : Cardinality({x \in ends : x < e}) = k - 1
    IN  [k \in 1..Cardinality(ends) |->
            SubSeq(t, IF k = 1 THEN 1 ELSE end(k - 1) + 1, end(k))]

-----------------------------------------------------------------------------
(* Filenames (lines 69-70) and their order (line 89).                      *)

\* tag.replace(' ', '_')
replace_spaces(tag) == [i \in 1..Len(tag) |-> IF tag[i] = " " THEN "_" ELSE tag[i]]

DigitChar(d) == CASE d = 0 -> "0" [] d = 1 -> "1" [] d = 2 -> "2" [] d = 3 -> "3"
                  [] d = 4 -> "4" [] d = 5 -> "5" [] d = 6 -> "6" [] d = 7 -> "7"
                  [] d = 8 -> "8" [] d = 9 -> "9"
\* a number below 100 as two digits, zero-padded (%H, %M, %S, %m, %d)
TwoDigits(n) == <<DigitChar(n \div 10), DigitChar(n % 10)>>

\* The clock counts seconds from 2023-12-31 00:00:00 local time and the
\* model covers that day and the next: datetime.now() is that day plus
\* `clock` seconds.
SecondsPerDay == 24 * 3600
ClockStart == 23 * 3600 + 59 * 60 + 58
\* %Y%m%d of the day the clock is in
DateOf(clock) ==
    IF clock < SecondsPerDay THEN <<"2","0","2","3","1","2","3","1">>
    ELSE <<"2","0","2","4","0","1","0","1">>
\* datetime.now().strftime('%Y%m%d_%H%M%S')
strftime(clock) ==
    LET s == clock % SecondsPerDay
    IN  DateOf(clock) \o <<"_">> \o TwoDigits(s \div 3600)
        \o TwoDigits((s % 3600) \div 60) \o TwoDigits(s % 60)

JSONL_EXT == <<".","j","s","o","n","l">>
\* A faulty filename whose timestamp stops at the minute: '%Y%m%d_%H%M'.
FilenameOfMinutes(tag, clock) ==
    LET stamp == strftime(clock)
    IN  replace_spaces(tag) \o <<"_">> \o SubSeq(stamp, 1, Len(stamp) - 2) \o JSONL_EXT
\* lines 69-70: f"{tag_input.replace(' ', '_')}_{now:%Y%m%d_%H%M%S}.jsonl"
FilenameOf(tag, clock) ==
    replace_spaces(tag) \o <<"_">> \o strftime(clock) \o JSONL_EXT

\* the code points of the characters filenames are made of
Code(c) ==
    CASE c = " " -> 32 [] c = QUOTE -> 34 [] c = "." -> 46
      [] c = "0" -> 48 [] c = "1" -> 49 [] c = "2" -> 50 [] c = "3" -> 51
      [] c = "4" -> 52 [] c = "5" -> 53 [] c = "6" -> 54 [] c = "7" -> 55
      [] c = "8" -> 56 [] c = "9" -> 57
      [] c = "A" -> 65 [] c = "B" -> 66 [] c = "C" -> 67
      [] c = "_" -> 95
      [] c = "a" -> 97 [] c = "b" -> 98 [] c = "c" -> 99
      [] c = "j" -> 106 [] c = "l" -> 108 [] c = "n" -> 110
      [] c = "o" -> 111 [] c = "s" -> 115

\* str < str: by code point at the first difference, a proper prefix first
RECURSIVE StrLess(_, _)
StrLess(a, b) ==
    IF b = <<>> THEN FALSE
    ELSE IF a = <<>> THEN TRUE
    ELSE IF Head(a) = Head(b) THEN StrLess(Tail(a), Tail(b))
    ELSE Code(Head(a)) < Code(Head(b))

\* sorted(names): ascending
RECURSIVE SortAsc(_)
SortAsc(names) ==
    IF names = {} THEN <<>>
    ELSE Bind(CHOOSE x \in names : \A y \in names \ {x} : StrLess(x, y),
              LAMBDA least :
                  <<least>> \o Bind(names \ {least}, LAMBDA rest : SortAsc(rest)))

\* sorted(names, reverse=True)
RECURSIVE SortDesc(_)
SortDesc(names) ==
    IF names = {} THEN <<>>
    ELSE Bind(CHOOSE x \in names : \A y \in names \ {x} : StrLess(y, x),
              LAMBDA greatest :
                  <<greatest>> \o Bind(names \ {greatest}, LAMBDA rest : SortDesc(rest)))

\* str.lower() on ASCII text
LowerChar(c) ==
    CASE c = "A" -> "a" [] c = "B" -> "b" [] c = "C" -> "c" [] c = "D" -> "d"
      [] c = "E" -> "e" [] c = "F" -> "f" [] c = "G" -> "g" [] c = "H" -> "h"
      [] c = "I" -> "i" [] c = "J" -> "j" [] c = "K" -> "k" [] c = "L" -> "l"
      [] c = "M" -> "m" [] c = "N" -> "n" [] c = "O" -> "o" [] c = "P" -> "p"
      [] c = "Q" -> "q" [] c = "R" -> "r" [] c = "S" -> "s" [] c = "T" -> "t"
      [] c = "U" -> "u" [] c = "V" -> "v" [] c = "W" -> "w" [] c = "X" -> "x"
      [] c = "Y" -> "y" [] c = "Z" -> "z" [] OTHER -> c
lower(str) == [i \in 1..Len(str) |-> LowerChar(str[i])]

\* needle in hay (str containment), scanning the start positions
RECURSIVE InFrom(_, _, _)
InFrom(needle, hay, i) ==
    IF i + Len(needle) - 1 > Len(hay) THEN FALSE
    ELSE IF SubSeq(hay, i, i + Len(needle) - 1) = needle THEN TRUE
    ELSE InFrom(needle, hay, i + 1)
str_in(needle, hay) == Bind(hay, LAMBDA h : InFrom(needle, h, 1))

-----------------------------------------------------------------------------
(* The compare block (lines 90-127) as a function of what it reads.        *)

\* lines 98-99: [json.loads(line) for line in f.readlines()]; a line that
\* json.loads rejects raises and no list is built
RECURSIVE LoadLines(_)
LoadLines(lines) ==
    IF lines = <<>> THEN [ok |-> TRUE, val |-> <<>>]
    ELSE Bind(json_loads(Head(lines)), LAMBDA r :
         Bind(LoadLines(Tail(lines)), LAMBDA rest :
             IF r.ok /\ rest.ok
             THEN [ok |-> TRUE, val |-> <<DictOf(r.val)>> \o rest.val]
             ELSE [ok |-> FALSE, val |-> <<>>]))
load(content) == Bind(readlines(content), LAMBDA lines : LoadLines(lines))

\* the tag half of the condition of lines 101-102:
\* (tag_filter in entry['tag'].lower() if tag_filter else True)
TagPart(entry, tag_filter) ==
    IF tag_filter = <<>> THEN "keep"
    ELSE IF K_tag \notin DOMAIN entry THEN "KeyError"
    ELSE IF str_in(tag_filter, lower(entry[K_tag])) THEN "keep" ELSE "drop"

\* A faulty condition that tests the prompt and the response as they are.
FilterEntryCaseSensitive(entry, keyword, tag_filter) ==
    IF K_prompt \notin DOMAIN entry THEN "KeyError"
    ELSE IF str_in(keyword, entry[K_prompt]) THEN TagPart(entry, tag_filter)
    ELSE IF K_response \notin DOMAIN entry THEN "KeyError"
    ELSE IF str_in(keyword, entry[K_response]) THEN TagPart(entry, tag_filter)
    ELSE "drop"

\* the condition of lines 101-102 on one entry, evaluated left to right:
\* `or` and `and` stop at the first operand that decides, so a field is
\* read only when it is needed, and reading a missing field raises KeyError
FilterEntry(entry, keyword, tag_filter) ==
    IF K_prompt \notin DOMAIN entry THEN "KeyError"
    ELSE IF str_in(keyword, lower(entry[K_prompt])) THEN TagPart(entry, tag_filter)
    ELSE IF K_response \notin DOMAIN entry THEN "KeyError"
    ELSE IF str_in(keyword, lower(entry[K_response])) THEN TagPart(entry, tag_filter)
    ELSE "drop"

\* the list comprehension of lines 101-102
RECURSIVE FilterList(_, _, _)
FilterList(data, keyword, tag_filter) ==
    IF data = <<>> THEN [ok |-> TRUE, val |-> <<>>]
    ELSE Bind(FilterEntry(Head(data), keyword, tag_filter), LAMBDA v :
         Bind(FilterList(Tail(data), keyword, tag_filter), LAMBDA rest :
             IF v = "KeyError" \/ ~rest.ok THEN [ok |-> FALSE, val |-> <<>>]
             ELSE [ok |-> TRUE,
                   val |-> (IF v = "keep" THEN <<Head(data)>> ELSE <<>>) \o rest.val]))

\* lines 110-114 and 117-121: the entries shown before the first one that
\* lacks a field the display reads
Displayable(entry) == {K_prompt, K_response, K_tag} \subseteq DOMAIN entry
RECURSIVE ShownPrefix(_)
ShownPrefix(ms) ==
    IF ms = <<>> \/ ~Displayable(Head(ms)) THEN <<>>
    ELSE <<Head(ms)>> \o ShownPrefix(Tail(ms))

UNLABELED == <<"U","n","l","a","b","e","l","e","d">>
\* version_labels.get(v, 'Unlabeled')
dict_get(items, k, default) == IF HasKey(items, k) THEN DictOf(items)[k] ELSE default

\* A faulty guard that forgets the filenames.
CompareGuardKeywordOnly(v1, v2, keyword) == keyword # <<>>

\* nothing loaded, nothing shown
NoResult ==
    [v1 |-> <<>>, v2 |-> <<>>, keyword |-> <<>>, tag_filter |-> <<>>,
     opened |-> {}, error |-> "none",
     data1 |-> <<>>, data2 |-> <<>>, matches1 |-> <<>>, matches2 |-> <<>>,
     counts |-> <<>>, label1 |-> <<>>, label2 |-> <<>>,
     shown1 |-> <<>>, shown2 |-> <<>>, combined |-> <<>>, offered |-> FALSE]

\* the guard of line 96
CompareGuard(v1, v2, keyword) == v1 # v2 /\ keyword # <<>>

\* lines 104-127, once both lists are loaded (d1, d2) and filtered (m1, m2)
Report(chosen, labels, d1, d2, m1, m2, s1, s2) ==
    LET loaded == [chosen EXCEPT !.opened = {chosen.v1, chosen.v2},
                       !.data1 = d1, !.data2 = d2,                    \* lines 97-99
                       !.matches1 = m1, !.matches2 = m2]              \* lines 101-102
        counted == [loaded EXCEPT
                        !.counts = <<Len(m1), Len(m2), Len(m1) + Len(m2)>>,  \* 104-107
                        !.label1 = dict_get(labels, chosen.v1, UNLABELED),   \* line 109
                        !.shown1 = s1]                                \* lines 110-114
        second == [counted EXCEPT
                       !.label2 = dict_get(labels, chosen.v2, UNLABELED),    \* line 116
                       !.shown2 = s2]                                 \* lines 117-121
    IN  IF s1 # m1 THEN [counted EXCEPT !.error = "KeyError"]
        ELSE IF s2 # m2 THEN [second EXCEPT !.error = "KeyError"]
        ELSE [second EXCEPT !.combined = m1 \o m2,                    \* line 123
                            !.offered = (m1 \o m2 # <<>>)]            \* lines 124-127

\* lines 93-127 for the selections v1, v2 and the two text inputs; dir is
\* VERSION_DIR and labels the run's version_labels
compare(dir, labels, v1, v2, keyword_input, tag_filter_input) ==
    Bind(lower(keyword_input), LAMBDA keyword :              \* line 93
    Bind(lower(tag_filter_input), LAMBDA tag_filter :        \* line 94
    Bind([NoResult EXCEPT !.v1 = v1, !.v2 = v2, !.keyword = keyword_input,
                          !.tag_filter = tag_filter_input], LAMBDA chosen :
        IF ~CompareGuard(v1, v2, keyword) THEN chosen          \* line 96
        ELSE
    Bind([chosen EXCEPT !.opened = {v1, v2}], LAMBDA opened :   \* line 97
    Bind(load(dir[v1]), LAMBDA d1 :                            \* line 98
        IF ~d1.ok THEN [opened EXCEPT !.error = "JSONDecodeError"]
        ELSE
    Bind(load(dir[v2]), LAMBDA d2 :                            \* line 99
        IF ~d2.ok THEN [opened EXCEPT !.error = "JSONDecodeError", !.data1 = d1.val]
        ELSE
    Bind([opened EXCEPT !.data1 = d1.val, !.data2 = d2.val], LAMBDA loaded :
    Bind(FilterList(d1.val, keyword, tag_filter), LAMBDA m1 :  \* line 101
        IF ~m1.ok THEN [loaded EXCEPT !.error = "KeyError"]
        ELSE
    Bind(FilterList(d2.val, keyword, tag_filter), LAMBDA m2 :  \* line 102
        IF ~m2.ok THEN [loaded EXCEPT !.error = "KeyError", !.matches1 = m1.val]
        ELSE
    Bind(ShownPrefix(m1.val), LAMBDA s1 :
    Bind(ShownPrefix(m2.val), LAMBDA s2 :
        Report(chosen, labels, d1.val, d2.val, m1.val, m2.val, s1, s2))))))))))))

-----------------------------------------------------------------------------
(* Files and the label dict.                                               *)

\* the runs of the script that may be in progress at once
Procs == {1, 2}

\* open(path, "w").write(content) / shutil.copy: the directory afterwards
FileWrite(dir, name, content) ==
    [x \in DOMAIN dir \cup {name} |-> IF x = name THEN content ELSE dir[x]]

\* A faulty assignment that keeps the value of a key already present.
dict_set_keep_old(items, k, v) ==
    IF HasKey(items, k) THEN items ELSE Append(items, <<k, v>>)

\* line 81: version_labels[filename] = version_label
dict_set(items, k, v) == PutItem(items, k, v)

\* A file opened in append mode: the new text follows the old.
write_appended(old, new) == old \o new

\* lines 82-83: the dump is written at offset 0 of the file the open()
\* truncated; whatever another writer has put beyond its end stays
write_at_start(old, new) == new \o SubSeq(old, Len(new) + 1, Len(old))

\* the set of elements of a sequence
Range(seq) == {seq[i] : i \in 1..Len(seq)}

-----------------------------------------------------------------------------
(* Bounds and inputs.                                                      *)

MaxFrags == 3      \* fragments per scrubbed text
MaxSegLen == 6     \* characters per segmented text
MaxRuns == 2       \* script runs per behaviour
MaxTicks == 2      \* seconds the clock advances per behaviour

Fragments ==
    { <<"J","o"," ","A","l">>, <<"J","o">>, <<" ">>,
      <<"1","/","2","/">>, <<"3","4">>,
      <<"5","5","5","-">>, <<"1","2","3","4">>,
      <<"a","@">>, <<"b",".">> }

RECURSIVE FragTexts(_)
FragTexts(n) ==
    IF n = 0 THEN { <<>> }
    ELSE LET shorter == FragTexts(n - 1)
         IN  shorter \cup { f \o s : f \in Fragments, s \in shorter }

SegAlphabet == {"a", "b", " ", "\n"}
SegTags == { <<"t">>, <<"a", " ", "b">> }

RECURSIVE SeqsUpTo(_, _)
SeqsUpTo(S, n) ==
    IF n = 0 THEN { <<>> }
    ELSE LET shorter == SeqsUpTo(S, n - 1)
         IN  shorter \cup { <<c>> \o s : c \in S, s \in {x \in shorter : Len(x) = n - 1} }

\* uploads: an empty document, and one with a quote and a backslash
\*   Hi "
\*   b\
\*   c
UploadTexts ==
    { <<>>, <<"H","i"," ","\"","\n","b","\\","\n","c">> }
\* tag_input: two tags that differ in a space / underscore, and a third
Tags == { <<"a"," ","b">>, <<"a","_","b">>, <<"c">> }
\* version_label ("" is no label)
Labels == { <<"v","1">>, <<"v","\"","2">> }
\* the keyword and tag filter inputs ("" is none)
Keywords == { <<>>, <<"H","I">> }
TagFilters == { <<>>, <<"A">> }
\* the seconds the clock shows, and the filenames a save can produce
Clock == ClockStart..(ClockStart + MaxTicks)
Filenames == { FilenameOf(tag, t) : tag \in Tags, t \in Clock }

-----------------------------------------------------------------------------
(* The specifications.                                                     *)

ScrubIdle ==
    /\ raw_text = <<>> /\ text = <<>> /\ prev = <<>> /\ spc = "off"
SegIdle ==
    /\ seg_text = <<>> /\ seg_tag = <<>> /\ dataset = <<>> /\ segpc = "off"

\* no run made yet and no label file
NoRuns ==
    /\ now = ClockStart /\ runs = 0
    /\ labels_file = [exists |-> FALSE, content |-> <<>>] /\ last_writer = 0
    /\ pc = [p \in Procs |-> "idle"]
    /\ version_labels = [p \in Procs |-> <<>>]
    /\ filename = [p \in Procs |-> <<>>]
    /\ pairs = [p \in Procs |-> <<>>]
    /\ versioned_files = [p \in Procs |-> <<>>]
    /\ result = [p \in Procs |-> NoResult]
    /\ saves = <<>> /\ given = <<>>
\* lines 19-21 on a first start: the directories are made, empty
StoreIdle ==
    /\ saved_datasets = <<>> /\ versioned_datasets = <<>>
    /\ NoRuns

InitScrub ==
    /\ raw_text \in FragTexts(MaxFrags)
    /\ text = raw_text
    /\ prev = raw_text
    /\ spc = "raw"
    /\ SegIdle
    /\ StoreIdle

ScrubStep(from, to) ==
    /\ spc = from
    /\ prev' = text
    /\ text' = re_sub(RuleRe(to), RuleRepl(to), text)
    /\ spc' = to
    /\ UNCHANGED <<raw_text, segVars, storeVars>>

ScrubName == ScrubStep("raw", "name")       \* line 33
ScrubDate == ScrubStep("name", "date")      \* line 34
ScrubPhone == ScrubStep("date", "phone")    \* line 35
ScrubEmail == ScrubStep("phone", "email")   \* line 36, returned by line 37

NextScrub == ScrubName \/ ScrubDate \/ ScrubPhone \/ ScrubEmail

SpecScrub == InitScrub /\ [][NextScrub]_vars


InitSegment ==
    /\ seg_text \in SeqsUpTo(SegAlphabet, MaxSegLen)
    /\ seg_tag \in SegTags
    /\ dataset = <<>>
    /\ segpc = "call"
    /\ ScrubIdle
    /\ StoreIdle

Segment ==
    /\ segpc = "call"
    /\ dataset' = segment_into_pairs(seg_text, seg_tag)
    /\ segpc' = "returned"
    /\ UNCHANGED <<seg_text, seg_tag, scrubVars, storeVars>>

NextSegment == Segment

SpecSegment == InitSegment /\ [][NextSegment]_vars


(* The script, run by run. A run is one execution of app.py from top to    *)
(* bottom; pc is where the run stands:                                     *)
(*   "idle"      no run made yet                                           *)
(*   "started"   version_labels loaded (lines 23-27)                       *)
(*   "saved"     the dataset written and copied (lines 60-77)              *)
(*   "labelling" version_labels.json opened for writing (line 82)          *)
(*   "uploaded"  the upload block is over (line 86) or was skipped         *)
(*   "listed"    versioned_files computed (line 89)                        *)
(*   "done"      the script ended; "failed": it ended in an exception      *)

Ended == {"idle", "done", "failed"}

\* the locals of a run, at its start
FreshRun(p) ==
    /\ filename' = [filename EXCEPT ![p] = <<>>]
    /\ pairs' = [pairs EXCEPT ![p] = <<>>]
    /\ versioned_files' = [versioned_files EXCEPT ![p] = <<>>]
    /\ result' = [result EXCEPT ![p] = NoResult]

\* lines 23-27: a run starts and loads the label map
Startup(p) ==
    /\ pc[p] \in Ended
    /\ runs < MaxRuns
    /\ \E loaded \in {json_loads(labels_file.content)} :
           /\ labels_file.exists => loaded.ok
           /\ version_labels' = [version_labels EXCEPT ![p] =
                  IF labels_file.exists THEN loaded.val ELSE <<>>]
    /\ pc' = [pc EXCEPT ![p] = "started"]
    /\ runs' = runs + 1
    /\ FreshRun(p)
    /\ UNCHANGED <<now, fsVars, labelVars, histVars, scrubVars, segVars>>

\* line 25: json.load raises on a file another run has opened for writing
\* and not written yet, or has written over a longer text
StartupFail(p) ==
    /\ pc[p] \in Ended
    /\ runs < MaxRuns
    /\ labels_file.exists /\ ~json_loads(labels_file.content).ok
    /\ pc' = [pc EXCEPT ![p] = "failed"]
    /\ runs' = runs + 1
    /\ FreshRun(p)
    /\ UNCHANGED <<now, fsVars, labelVars, version_labels, histVars, scrubVars, segVars>>

\* line 59 with no file uploaded
NoUpload(p) ==
    /\ pc[p] = "started"
    /\ pc' = [pc EXCEPT ![p] = "uploaded"]
    /\ UNCHANGED <<now, runs, fsVars, labelVars, version_labels, filename, pairs,
                   versioned_files, result, histVars, scrubVars, segVars>>

\* lines 60-77: scrub, segment, write the dataset and copy it
Save(p, uploaded, tag_input) ==
    /\ pc[p] = "started"
    /\ \E scrubbed \in {scrub_text(uploaded)} :                       \* line 61
       \E ps \in {segment_into_pairs(scrubbed, tag_input)} :         \* line 62
       \E jsonl_data \in {jsonl(ps)} :                               \* line 68
       \E name \in {FilenameOf(tag_input, now)} :                    \* lines 69-70
       \E written \in {FileWrite(saved_datasets, name, jsonl_data)} : \* lines 73-74
           /\ pairs' = [pairs EXCEPT ![p] = ps]
           /\ filename' = [filename EXCEPT ![p] = name]
           /\ saved_datasets' = written
           /\ versioned_datasets' = FileWrite(versioned_datasets, name, written[name])
           /\ saves' = Append(saves, [tag |-> tag_input, time |-> now,
                                      filename |-> name, data |-> jsonl_data])
    /\ pc' = [pc EXCEPT ![p] = "saved"]
    /\ UNCHANGED <<now, runs, labelVars, version_labels, versioned_files, result,
                   given, scrubVars, segVars>>

\* line 80 with an empty version_label
NoLabel(p) ==
    /\ pc[p] = "saved"
    /\ pc' = [pc EXCEPT ![p] = "uploaded"]
    /\ UNCHANGED <<now, runs, fsVars, labelVars, version_labels, filename, pairs,
                   versioned_files, result, histVars, scrubVars, segVars>>

\* lines 81-82: the dict is updated and the file opened with mode "w",
\* which truncates it
LabelOpen(p, version_label) ==
    /\ pc[p] = "saved"
    /\ version_label # <<>>
    /\ version_labels' = [version_labels EXCEPT ![p] =
                              dict_set(@, filename[p], version_label)]
    /\ labels_file' = [exists |-> TRUE, content |-> <<>>]
    /\ given' = [f \in DOMAIN given \cup {filename[p]} |->
                     IF f = filename[p] THEN version_label ELSE given[f]]
    /\ pc' = [pc EXCEPT ![p] = "labelling"]
    /\ UNCHANGED <<now, runs, fsVars, last_writer, filename, pairs, versioned_files,
                   result, saves, scrubVars, segVars>>

\* lines 83-86: the dump reaches the file when the with block closes it
LabelWrite(p) ==
    /\ pc[p] = "labelling"
    /\ labels_file' = [exists |-> TRUE,
                       content |-> write_at_start(labels_file.content,
                                       json_dump_indent2(version_labels[p]))]
    /\ last_writer' = p
    /\ pc' = [pc EXCEPT ![p] = "uploaded"]
    /\ UNCHANGED <<now, runs, fsVars, version_labels, filename, pairs, versioned_files,
                   result, histVars, scrubVars, segVars>>

\* line 89: versioned_files = sorted(os.listdir(VERSION_DIR), reverse=True)
listVersions(dir) == SortDesc(DOMAIN dir)

ListVersions(p) ==
    /\ pc[p] = "uploaded"
    /\ versioned_files' = [versioned_files EXCEPT ![p] = listVersions(versioned_datasets)]
    /\ pc' = [pc EXCEPT ![p] = "listed"]
    /\ UNCHANGED <<now, runs, fsVars, labelVars, version_labels, filename, pairs,
                   result, histVars, scrubVars, segVars>>

\* line 90 with fewer than two versions: the script ends
CompareUnavailable(p) ==
    /\ pc[p] = "listed"
    /\ Len(versioned_files[p]) < 2
    /\ pc' = [pc EXCEPT ![p] = "done"]
    /\ UNCHANGED <<now, runs, fsVars, labelVars, version_labels, filename, pairs,
                   versioned_files, result, histVars, scrubVars, segVars>>

\* lines 90-127 with the two selections and the two text inputs
Compare(p, v1, v2, keyword_input, tag_filter_input) ==
    /\ pc[p] = "listed"
    /\ Len(versioned_files[p]) >= 2
    /\ v1 \in Range(versioned_files[p])
    /\ v2 \in Range(versioned_files[p])
    /\ \E r \in {compare(versioned_datasets, version_labels[p], v1, v2,
                         keyword_input, tag_filter_input)} :
           /\ result' = [result EXCEPT ![p] = r]
           /\ pc' = [pc EXCEPT ![p] = IF r.error = "none" THEN "done" ELSE "failed"]
    /\ UNCHANGED <<now, runs, fsVars, labelVars, version_labels, filename, pairs,
                   versioned_files, histVars, scrubVars, segVars>>

\* a second passes
Tick ==
    /\ now + 1 \in Clock
    /\ now' = now + 1
    /\ UNCHANGED <<runs, fsVars, labelVars, runVars, histVars, scrubVars, segVars>>

Init ==
    /\ ScrubIdle /\ SegIdle /\ StoreIdle

(* One run at a time, on directories that start empty: what the runs save, *)
(* label and compare. The runs fall within one second.                     *)
Next ==
    \/ Startup(1)
    \/ NoUpload(1)
    \/ \E uploaded \in UploadTexts, tag_input \in Tags : Save(1, uploaded, tag_input)
    \/ NoLabel(1)
    \/ \E version_label \in Labels : LabelOpen(1, version_label)
    \/ LabelWrite(1)
    \/ ListVersions(1)
    \/ CompareUnavailable(1)
    \/ \E v1 \in Filenames, v2 \in Filenames,
          keyword_input \in Keywords, tag_filter_input \in TagFilters :
              Compare(1, v1, v2, keyword_input, tag_filter_input)

Spec == Init /\ [][Next]_vars

(* One run at a time, as the seconds pass: the names of the files the runs *)
(* save and the order they are listed in. No label is entered, and the     *)
(* widgets of the compare block are left as they are: the two selections   *)
(* on one file, no keyword.                                                *)
NextNames ==
    \/ Tick
    \/ Startup(1)
    \/ NoUpload(1)
    \/ \E uploaded \in UploadTexts, tag_input \in Tags : Save(1, uploaded, tag_input)
    \/ NoLabel(1)
    \/ ListVersions(1)
    \/ CompareUnavailable(1)
    \/ \E v \in Filenames : Compare(1, v, v, <<>>, <<>>)

SpecNames == Init /\ [][NextNames]_vars

-----------------------------------------------------------------------------
(* The compare block on a versioned directory that holds two files when    *)
(* the script starts: files of earlier saves as they were written, and     *)
(* files that were changed or put there by hand.                           *)

EntryHi == Record(<<"H","i">>, <<"x">>, <<"A","b">>)
EntryOh == Record(<<"n","o">>, <<"o","H","I">>, <<"c">>)
EntryNo == Record(<<"n","o">>, <<"n","o">>, <<"A","b">>)

\* "key": "value" as json.dumps writes it
Member(k, v) == json_dumps_str(k) \o <<":", " ">> \o json_dumps_str(v)

\* {"prompt": "no", "response": "x"}
LineNoTag ==
    <<"{">> \o Member(K_prompt, <<"n","o">>) \o <<",", " ">>
            \o Member(K_response, <<"x">>) \o <<"}">>
\* {"prompt": "Hi", "tag": "Ab"}
LineNoResponse ==
    <<"{">> \o Member(K_prompt, <<"H","i">>) \o <<",", " ">>
            \o Member(K_tag, <<"A","b">>) \o <<"}">>
\* {"response": "Hi", "tag": "Ab"}
LineNoPrompt ==
    <<"{">> \o Member(K_response, <<"H","i">>) \o <<",", " ">>
            \o Member(K_tag, <<"A","b">>) \o <<"}">>
\* {"prompt": "Hi"      (cut short)
LineCut == <<"{">> \o Member(K_prompt, <<"H","i">>)

\* what a file of the versioned directory may hold
DirContents ==
    { jsonl(<<EntryHi, EntryOh, EntryNo>>),                        \* as saved
      jsonl(<<EntryOh, EntryHi>>),                                 \* as saved
      <<>>,                                                        \* as saved, no pairs
      jsonl(<<EntryHi>>) \o <<"\n">>,                              \* a final newline
      jsonl(<<EntryHi>>) \o <<"\n", "\n">> \o jsonl(<<EntryOh>>),  \* a blank line
      LineNoTag, LineNoResponse, LineNoPrompt,                     \* a field missing
      jsonl(<<EntryHi>>) \o <<"\n">> \o LineCut }                  \* not JSON

\* the names of the two files
FileOne == FilenameOf(<<"c">>, ClockStart)
FileTwo == FilenameOf(<<"a"," ","b">>, ClockStart)

\* the keyword inputs of the comparisons ("" is none)
CompareKeywords == { <<>>, <<"H","I">>, <<"X">> }

InitCompare ==
    /\ ScrubIdle /\ SegIdle /\ NoRuns
    /\ saved_datasets = <<>>
    /\ \E c1 \in DirContents, c2 \in DirContents :
           versioned_datasets = (FileOne :> c1) @@ (FileTwo :> c2)

NextCompare ==
    \/ Startup(1)
    \/ NoUpload(1)
    \/ ListVersions(1)
    \/ \E v1 \in Filenames, v2 \in Filenames,
          keyword_input \in CompareKeywords, tag_filter_input \in TagFilters :
              Compare(1, v1, v2, keyword_input, tag_filter_input)

SpecCompare == InitCompare /\ [][NextCompare]_vars

-----------------------------------------------------------------------------
(* Two runs of the script at once (two browser sessions): each run takes   *)
(* its steps in order, and the steps of the two interleave.                *)

\* what the two sessions enter
ConcTags == { <<"a"," ","b">>, <<"c">> }
ConcUploads == { <<>> }

NextConc ==
    \/ \E p \in Procs : Startup(p)
    \/ \E p \in Procs : StartupFail(p)
    \/ \E p \in Procs, uploaded \in ConcUploads, tag_input \in ConcTags :
           Save(p, uploaded, tag_input)
    \/ \E p \in Procs, version_label \in Labels : LabelOpen(p, version_label)
    \/ \E p \in Procs : LabelWrite(p)
    \/ \E p \in Procs : ListVersions(p)
    \/ \E p \in Procs : CompareUnavailable(p)
    \/ \E p \in Procs, v1 \in Filenames, v2 \in Filenames,
          keyword_input \in Keywords, tag_filter_input \in TagFilters :
              Compare(p, v1, v2, keyword_input, tag_filter_input)

SpecConc == Init /\ [][NextConc]_vars

-----------------------------------------------------------------------------
(* Claim-side vocabulary for the scrubber: the matches re.sub replaces.    *)

\* some match of the pattern exists in t
HasMatch(items, t) == \E i \in 1..Len(t) : MatchFrom(items, 1, t, i) # 0

\* the starts of the leftmost non-overlapping matches of the pattern in t:
\* a start is a matching position not inside an earlier chosen match
RECURSIVE MatchStarts(_, _, _)
MatchStarts(items, t, i) ==
    IF i > Len(t) THEN {}
    ELSE Bind(MatchFrom(items, 1, t, i), LAMBDA e :
             IF e # 0 THEN {i} \cup MatchStarts(items, t, e)
             ELSE MatchStarts(items, t, i + 1))

\* the sum of f[x] over x in S
RECURSIVE SumOver(_, _)
SumOver(S, f) ==
    IF S = {} THEN 0
    ELSE LET x == CHOOSE y \in S : TRUE IN f[x] + SumOver(S \ {x}, f)

\* the change of length re.sub makes on t: per match, placeholder minus match
LengthChange(items, repl, t) ==
    LET starts == MatchStarts(items, t, 1)
        delta == [i \in starts |-> Len(repl) - (MatchFrom(items, 1, t, i) - i)]
    IN  SumOver(starts, delta)

ScrubRules == {"name", "date", "phone", "email"}

\* C10 as stated: for every input text T, scrub_text(T) returns a string
\* whose length is the same as or shorter than the length of T.
C10_SameOrShorter == spc = "email" => Len(text) <= Len(raw_text)

\* C10 amended: the four rules run in the order name, date, phone, email,
\* each on the output of the previous one; after a rule has run, no match
\* of its pattern is left in its output, and the length of its output is
\* the length of its input plus, for every match replaced, the length of
\* the placeholder (15 or 16) minus the length of the match: the result
\* may be longer than the input.
C10_EveryMatchReplaced ==
    spc \in ScrubRules =>
        /\ ~HasMatch(RuleRe(spc), text)
        /\ Len(text) = Len(prev) + LengthChange(RuleRe(spc), RuleRepl(spc), prev)
        /\ (~HasMatch(RuleRe(spc), prev) => text = prev)

\* C10 witness: a scrub has finished whose name rule replaced two matches
\* and whose result is longer than the input.
C10_Witness ==
    /\ spc = "email"
    /\ Cardinality(MatchStarts(NAME_RE, raw_text, 1)) = 2
    /\ Len(text) > Len(raw_text)

(* Claim-side vocabulary: the lines of a text, stated by position.         *)
NewlinesOf(t) == {i \in 1..Len(t) : t[i] = "\n"}
LineStarts(t) == {1} \cup {i + 1 : i \in NewlinesOf(t)}
\* the position just after the line that starts at s
LineEnd(t, s) ==
    CHOOSE e \in s..(Len(t) + 1) :
        /\ e = Len(t) + 1 \/ t[e] = "\n"
        /\ \A j \in s..(e - 1) : t[j] # "\n"
Inked(t, s) == {j \in s..(LineEnd(t, s) - 1) : t[j] \notin Space}
\* the starts of the lines that are not empty after trimming
KeptStarts(t) == {s \in LineStarts(t) : Inked(t, s) # {}}
MinOf(S) == CHOOSE x \in S : \A y \in S : x <= y
MaxOf(S) == CHOOSE x \in S : \A y \in S : x >= y
Trimmed(t, s) == SubSeq(t, MinOf(Inked(t, s)), MaxOf(Inked(t, s)))
\* the k-th kept line, k = 0, 1, ...
KeptLine(t, k) ==
    LET s == CHOOSE x \in KeptStarts(t) :
                 Cardinality({y \in KeptStarts(t) : y < x}) = k
    IN  Trimmed(t, s)

-----------------------------------------------------------------------------
(* Claims on saving and loading: Spec.                                     *)

\* the run has saved a dataset
HasSaved(p) == filename[p] # <<>>

-----------------------------------------------------------------------------
(* Claims on the label map: Spec, one run at a time.                       *)

LabelsOnDisk == json_loads(labels_file.content)
\* the label shown for a filename, by the labels given so far
ShownLabel(v) == IF v \in DOMAIN given THEN given[v] ELSE UNLABELED

\* C6: one run at a time, the label file is the label map. Outside the
\* write itself, the in-memory map and the parsed file both map every
\* filename labelled so far to the label given last and hold nothing else,
\* there is no file before the first label, and a comparison shows that
\* label, or "Unlabeled" for a filename never labelled.
C6_LabelFileIsLabelMap ==
    \A p \in Procs :
        pc[p] \notin {"idle", "labelling"} =>
            /\ DictOf(version_labels[p]) = given
            /\ labels_file.exists <=> DOMAIN given # {}
            /\ labels_file.exists =>
                   LabelsOnDisk.ok /\ LabelsOnDisk.val = version_labels[p]
            /\ (result[p].counts # <<>> /\ result[p].error = "none") =>
                   /\ result[p].label1 = ShownLabel(result[p].v1)
                   /\ result[p].label2 = ShownLabel(result[p].v2)

\* two filenames were labelled in two runs, the second label just written
C6_Witness ==
    /\ pc[1] = "uploaded"
    /\ Cardinality(DOMAIN given) = 2
    /\ Len(version_labels[1]) = 2
    /\ LabelsOnDisk.ok /\ LabelsOnDisk.val = version_labels[1]

-----------------------------------------------------------------------------
(* Claims on filenames and their order: SpecNames.                         *)

\* a tag as it appears in a filename
Underscored(tag) == [i \in DOMAIN tag |-> IF tag[i] = " " THEN "_" ELSE tag[i]]
SavedNames == {saves[i].filename : i \in 1..Len(saves)}
\* the last save to a filename
LastSave(name) ==
    saves[CHOOSE i \in 1..Len(saves) :
              /\ saves[i].filename = name
              /\ \A j \in (i + 1)..Len(saves) : saves[j].filename # name]
\* every file of both directories holds what the last save to its name wrote
FilesAreLastSaves ==
    /\ DOMAIN saved_datasets = SavedNames
    /\ DOMAIN versioned_datasets = SavedNames
    /\ \A name \in SavedNames :
           /\ saved_datasets[name] = LastSave(name).data
           /\ versioned_datasets[name] = LastSave(name).data

\* C8 as stated: two saves write to the same filename only when they have
\* the same tag and the same second, and every file otherwise keeps what
\* was saved to it.
C8_SameFilenameSameTag ==
    /\ \A i, j \in 1..Len(saves) :
           saves[i].filename = saves[j].filename =>
               saves[i].tag = saves[j].tag /\ saves[i].time = saves[j].time
    /\ FilesAreLastSaves

\* C8, amended: two saves write to the same filename exactly when their
\* tags are equal once spaces are replaced by underscores and their
\* timestamps are the same second; every file of the two directories holds
\* what the last save to its name wrote, so a save to a new name changes no
\* earlier file.
C8_SameFilenameSameUnderscoredTag ==
    /\ \A i, j \in 1..Len(saves) :
           saves[i].filename = saves[j].filename <=>
               /\ Underscored(saves[i].tag) = Underscored(saves[j].tag)
               /\ saves[i].time = saves[j].time
    /\ FilesAreLastSaves

\* two saves with different tags wrote different data to one filename, and
\* both directories hold the second
C8_Witness ==
    /\ Len(saves) = 2
    /\ saves[1].filename = saves[2].filename
    /\ saves[1].tag # saves[2].tag
    /\ saves[1].data # saves[2].data
    /\ saved_datasets[saves[2].filename] = saves[2].data
    /\ versioned_datasets[saves[2].filename] = saves[2].data

\* a before b in lexicographic order: b continues a, or the first character
\* in which they differ has the smaller code point in a
LexLess(a, b) ==
    \E k \in 0..Len(a) :
        /\ k <= Len(b)
        /\ \A i \in 1..k : a[i] = b[i]
        /\ \/ k = Len(a) /\ k < Len(b)
           \/ k < Len(a) /\ k < Len(b) /\ Code(a[k + 1]) < Code(b[k + 1])
PositionIn(seq, x) == CHOOSE i \in 1..Len(seq) : seq[i] = x
Listed(p) == pc[p] \in {"listed", "done", "failed"}
\* the list is the directory, in descending lexicographic order
ListedDescending(p) ==
    /\ Range(versioned_files[p]) = DOMAIN versioned_datasets
    /\ \A i, j \in 1..Len(versioned_files[p]) :
           i < j => LexLess(versioned_files[p][j], versioned_files[p][i])

\* C7 as stated: the list is the directory in descending lexicographic
\* order, and of two files saved at different seconds, with any tags, the
\* one saved later comes first.
C7_NewestFirstAnyTags ==
    \A p \in Procs :
        Listed(p) =>
            /\ ListedDescending(p)
            /\ \A i, j \in 1..Len(saves) :
                   saves[i].time < saves[j].time =>
                       PositionIn(versioned_files[p], saves[j].filename)
                           < PositionIn(versioned_files[p], saves[i].filename)

\* C7, amended: the list is the directory in descending lexicographic
\* order, and of two files whose tags are equal once spaces are replaced by
\* underscores, the one with the later timestamp comes first.
C7_NewestFirstSameTag ==
    \A p \in Procs :
        Listed(p) =>
            /\ ListedDescending(p)
            /\ \A i, j \in 1..Len(saves) :
                   (/\ Underscored(saves[i].tag) = Underscored(saves[j].tag)
                    /\ saves[i].time < saves[j].time) =>
                       PositionIn(versioned_files[p], saves[j].filename)
                           < PositionIn(versioned_files[p], saves[i].filename)

\* two files of tags "a b" and "a_b", saved a day apart or less, listed
\* newest first
C7_Witness ==
    /\ pc[1] = "listed"
    /\ Len(saves) = 2
    /\ saves[1].tag # saves[2].tag
    /\ Underscored(saves[1].tag) = Underscored(saves[2].tag)
    /\ saves[1].time < saves[2].time
    /\ versioned_files[1] = <<saves[2].filename, saves[1].filename>>

-----------------------------------------------------------------------------
(* Claims on the comparison: SpecCompare.                                  *)

\* the comparison opened its two files
Compared(p) == result[p].opened # {}

\* the same letter, whatever the case
UpperLetters ==
    <<"A","B","C","D","E","F","G","H","I","J","K","L","M",
      "N","O","P","Q","R","S","T","U","V","W","X","Y","Z">>
LowerLetters ==
    <<"a","b","c","d","e","f","g","h","i","j","k","l","m",
      "n","o","p","q","r","s","t","u","v","w","x","y","z">>
CasePairs == { <<UpperLetters[i], LowerLetters[i]>> : i \in 1..Len(UpperLetters) }
SameLetter(a, b) == a = b \/ <<a, b>> \in CasePairs \/ <<b, a>> \in CasePairs
\* needle occurs in hay, case-insensitively
OccursIn(needle, hay) ==
    \E i \in 0..(Len(hay) - Len(needle)) :
        \A j \in 1..Len(needle) : SameLetter(needle[j], hay[i + j])
\* the rule of the claim for one record
Kept(entry, keyword, tag_filter) ==
    /\ OccursIn(keyword, entry[K_prompt]) \/ OccursIn(keyword, entry[K_response])
    /\ tag_filter # <<>> => OccursIn(tag_filter, entry[K_tag])
\* matches is the records of data that the rule keeps, in the order of data
IsKeptPart(matches, data, keyword, tag_filter) ==
    LET kept == {i \in 1..Len(data) : Kept(data[i], keyword, tag_filter)}
        nth(n) == CHOOSE i \in kept : Cardinality({j \in kept : j < i}) = n - 1
    IN  /\ Len(matches) = Cardinality(kept)
        /\ \A n \in 1..Len(matches) : matches[n] = data[nth(n)]
AllRecords(data) ==
    \A i \in 1..Len(data) : DOMAIN data[i] = {K_prompt, K_response, K_tag}

\* C3: the filter keeps a record exactly when the keyword occurs, in any
\* case, in its prompt or its response and the tag filter, if one is given,
\* occurs, in any case, in its tag. For every comparison of two files of
\* records, the matches of each file are the records of that file the rule
\* keeps, in file order, whatever the other file holds.
C3_FilterKeepsExactly ==
    \A p \in Procs :
        (Compared(p) /\ result[p].error = "none"
             /\ AllRecords(result[p].data1) /\ AllRecords(result[p].data2)) =>
            /\ IsKeptPart(result[p].matches1, result[p].data1,
                          result[p].keyword, result[p].tag_filter)
            /\ IsKeptPart(result[p].matches2, result[p].data2,
                          result[p].keyword, result[p].tag_filter)

\* a comparison with a tag filter kept one record of three in the first file
\* and one of two in the second
C3_Witness ==
    \E p \in Procs :
        /\ Compared(p) /\ result[p].error = "none"
        /\ result[p].tag_filter # <<>>
        /\ Len(result[p].data1) = 3 /\ Len(result[p].matches1) = 1
        /\ Len(result[p].data2) = 2 /\ Len(result[p].matches2) = 1

\* C4: a comparison of a file with itself does nothing. Whatever the
\* keyword and the tag filter, no file is opened or loaded, no matches or
\* counts are produced and no export is offered.
C4_SameFileNoComparison ==
    \A p \in Procs :
        (result[p].v1 # <<>> /\ result[p].v1 = result[p].v2) =>
            /\ result[p].opened = {} /\ result[p].error = "none"
            /\ result[p].data1 = <<>> /\ result[p].data2 = <<>>
            /\ result[p].matches1 = <<>> /\ result[p].matches2 = <<>>
            /\ result[p].counts = <<>> /\ result[p].combined = <<>>
            /\ ~result[p].offered

\* the same file was selected twice, with a keyword and a tag filter
C4_Witness ==
    \E p \in Procs :
        /\ result[p].v1 # <<>> /\ result[p].v1 = result[p].v2
        /\ result[p].keyword # <<>> /\ result[p].tag_filter # <<>>
        /\ versioned_datasets[result[p].v1] # <<>>

\* a line of nothing but whitespace
BlankLine(line) == \A i \in 1..Len(line) : line[i] \in Space
\* the line is a JSON object with the three fields
IsRecordLine(line) ==
    /\ json_loads(line).ok
    /\ {K_prompt, K_response, K_tag} \subseteq KeysOf(json_loads(line).val)
\* some non-empty line of the file is not JSON or lacks a field
Malformed(content) ==
    \E k \in 1..Len(readlines(content)) :
        /\ ~BlankLine(readlines(content)[k])
        /\ ~IsRecordLine(readlines(content)[k])

\* C5 as stated: loading parses the non-empty lines and fails when one of
\* them is not JSON or lacks one of the three fields, and a comparison in
\* which a load fails shows no matches and no counts and offers no export;
\* files whose non-empty lines are all records load.
C5_MalformedFileFails ==
    \A p \in Procs :
        Compared(p) =>
            IF \/ Malformed(versioned_datasets[result[p].v1])
               \/ Malformed(versioned_datasets[result[p].v2])
            THEN /\ result[p].error # "none"
                 /\ result[p].counts = <<>>
                 /\ result[p].shown1 = <<>> /\ result[p].shown2 = <<>>
                 /\ ~result[p].offered
            ELSE result[p].error = "none"

-----------------------------------------------------------------------------
(* Claims on two runs at once: SpecConc.                                   *)

\* the text a run has in memory for the label file
DumpOf(p) == json_dump_indent2(version_labels[p])
Written(p) == pc[p] \in {"uploaded", "listed", "done", "failed"} /\ HasSaved(p)
             /\ HasKey(version_labels[p], filename[p])

=============================================================================
